---- MODULE Spec2Model ----
(***************************************************************************)
(* Resumable concurrent crawl engine of scripts/tr_parser_html.py.         *)
(*                                                                         *)
(* The asynchronous scheduler (parse_all_products_async) runs on one       *)
(* asyncio event loop: a coroutine runs without interruption from one      *)
(* await that suspends to the next.  Every action below is one such        *)
(* uninterrupted stretch of a coroutine, or the completion of the          *)
(* operation (a GET, a database write in a thread) the coroutine waits on. *)
(***************************************************************************)
EXTENDS Integers, Sequences, FiniteSets, TLC

\* ------------------------------------------------------------------ bounds
\* Leaf categories of tr_categories, in id order.
NumCats == 3
\* Largest page number a pagination marker of the site carries: for the
\* run of the selected categories, and for the run of all categories.
MaxPages == 3
MaxPagesAll == 2
\* Retained items on a listing page that has items.
ItemsPerPage == 2
\* Scheduler runs (process starts) in one behaviour: of
\* parse_selected_categories_async, and of parse_all_products_async.
MaxRuns == 2
MaxRunsAll == 1
\* Live rows of the proxy table.
NumProxies == 2

\* asyncio.Semaphore sizes; the source sets 60 and 10, scaled down here so
\* that both limits are reached by NumCats categories of MaxPages pages.
MAX_CONCURRENT_CATEGORIES == 2
MAX_CONCURRENT_PAGES_PER_CATEGORY == 2

Cats == 1..NumCats
\* SELECTED_CATEGORY_IDS: two category ids.
SELECTED_CATEGORY_IDS == {1, 2}
Pages == 1..MaxPages
\* Python's None: a value that differs from every page and every document.
None == [none |-> TRUE]

\* ------------------------------------------------------------------ state
VARIABLES
    entry,       \* "selected" | "all": the entry point the process runs
    file,        \* data/parse_progress.json: the document last written
    store,       \* rows of tr_products_raw, one per sku
    run,         \* "idle" | "running" | "closed": the scheduler process
    runNo,       \* number of scheduler runs started
    progress,    \* the progress dict shared by the workers of a run
    completed,   \* completed = set(progress["completed_categories"])
    rot_proxies, \* ProxyRotator._proxies
    rot_idx,     \* ProxyRotator._idx
    clients,     \* keys of AsyncHttpClientPool._clients
    catSem,      \* value of the category semaphore
    catPc,       \* position of cat_worker / process_category_async
    start_page,  \* process_category_async: start_page
    total_pages, \* process_category_async: total_pages
    pageSem,     \* value of the per-category page semaphore
    pagePc,      \* position of worker / process_page of each page task
    pool_made,   \* the run has constructed its AsyncHttpClientPool
    aclose_calls \* client_pool.aclose() calls of the run

\* One call of async_fetch_listing.
VARIABLES
    f_pc,        \* "idle" | "get" | "sleep" | "done": where the call waits
    f_attempt,   \* attempt, the loop variable of range(4)
    f_backoff,   \* backoff, in milliseconds
    f_result,    \* the value returned
    f_gets,      \* client.get calls issued
    f_log,       \* what each client.get returned or raised
    f_sleeps     \* the delays passed to asyncio.sleep

schedVars == <<entry, file, store, run, runNo, progress, completed,
               rot_proxies, rot_idx, clients, catSem, catPc, start_page,
               total_pages, pageSem, pagePc, pool_made, aclose_calls>>
fetchVars == <<f_pc, f_attempt, f_backoff, f_result, f_gets, f_log, f_sleeps>>

\* One ProxyRotator and one AsyncHttpClientPool called by several workers.
VARIABLES
    r_built,     \* the rotator and the pool have been constructed
    r_proxies,   \* ProxyRotator._proxies
    r_idx,       \* ProxyRotator._idx
    p_clients,   \* AsyncHttpClientPool._clients: pairs <<key, client>>
    p_created,   \* httpx.AsyncClient objects constructed so far
    r_calls      \* per call: the worker, what next() and get_client returned

egressVars == <<r_built, r_proxies, r_idx, p_clients, p_created, r_calls>>

\* The table tr_products_raw under upsert_products.
VARIABLES
    t_rows,      \* the rows of the table
    t_log        \* every record applied so far, in order

sinkVars == <<t_rows, t_log>>

\* One call of parse_price.
VARIABLES
    pp_text,     \* the argument, a sequence of characters
    pp_done,     \* the call has returned
    pp_result    \* the value returned

priceVars == <<pp_text, pp_done, pp_result>>

\* One call of extract_products_from_html: a ListingParser fed the
\* events of a page.
VARIABLES
    ps_page,             \* the page: the tags and text nodes, in order
    ps_pos,              \* events handled so far
    ps_items,            \* ListingParser.items
    ps_in_item,          \* _in_item
    ps_depth,            \* _depth
    ps_cur,              \* _cur
    ps_text_buf,         \* _text_buf
    ps_in_price_block,   \* _in_price_block
    ps_price_text_buf,   \* _price_text_buf
    ps_in_characs_list,  \* _in_characs_list
    ps_characs_depth,    \* _characs_depth
    ps_in_char_li,       \* _in_char_li
    ps_char_li_buf,      \* _char_li_buf
    ps_in_name_link,     \* _in_name_link
    ps_name_link_buf,    \* _name_link_buf
    ps_closed,           \* extract_products_from_html has returned
    ps_out,              \* the list it returned
    pw_result,           \* process_page of the page: where it returned
    pw_batches           \* the batches it passed to upsert_products

parserVars == <<ps_page, ps_pos, ps_items, ps_in_item, ps_depth, ps_cur,
                ps_text_buf, ps_in_price_block, ps_price_text_buf,
                ps_in_characs_list, ps_characs_depth, ps_in_char_li,
                ps_char_li_buf, ps_in_name_link, ps_name_link_buf,
                ps_closed, ps_out, pw_result, pw_batches>>

\* The sequential crawler (parse_all_products) and the async crawl with one
\* category and one page at a time, run one after the other against the
\* same site and the same initial checkpoint.
VARIABLES
    q_site,      \* the site: what the GET of page p of category c returns
    sq_pc,       \* position of parse_all_products
    sq_cat,      \* the category the for loop is at
    sq_page,     \* scrape_category_pages: page
    sq_progress, \* progress, the dict of the run
    sq_file,     \* data/parse_progress.json of the sequential run
    sq_store,    \* tr_products_raw of the sequential run
    sq_fetched,  \* the pages requested, in order
    sq_raised,   \* the pages whose upsert_products raised
    a1_pc,       \* position of parse_all_products_async
    a1_cat,      \* the category whose worker holds the semaphore
    a1_page,     \* the page whose task holds the page semaphore
    a1_total,    \* process_category_async: total_pages
    a1_progress, \* progress, the dict of the run
    a1_completed,\* completed, the set read when the run starts
    a1_file,     \* data/parse_progress.json of the async run
    a1_store,    \* tr_products_raw of the async run
    a1_fetched,  \* the pages requested, in order
    a1_raised    \* the pages whose upsert_products raised

seqVars == <<q_site, sq_pc, sq_cat, sq_page, sq_progress, sq_file, sq_store,
             sq_fetched, sq_raised, a1_pc, a1_cat, a1_page, a1_total,
             a1_progress, a1_completed, a1_file, a1_store, a1_fetched,
             a1_raised>>

\* The variables of the parts a scheduler step does not look into.
auxVars ==
    <<fetchVars, egressVars, sinkVars, priceVars, parserVars, seqVars>>

vars == <<schedVars, auxVars>>

\* --------------------------------------------------------------- progress
\* category_pages is a dict; 0 stands for "key absent".
EmptyProgress ==
    [completed_categories |-> {}, category_pages |-> [c \in Cats |-> 0]]

\* What a kill between open(path, "w"), which truncates the file, and the
\* end of f.write leaves on disk: nothing, or a prefix of the document.
TornFiles == {[torn |-> "empty"], [torn |-> "partial"]}

\* sorted(list(completed)): the ids in ascending order.
RECURSIVE sorted(_)
sorted(S) ==
    IF S = {} THEN <<>>
    ELSE LET m == CHOOSE x \in S : \A y \in S : x <= y
         IN <<m>> \o sorted(S \ {m})

\* json.dumps(progress): completed_categories is written as the sorted
\* list, category_pages as an object with one member per key, the key
\* being the string str(category_id).
json_dumps(pr) ==
    [completed_categories |-> sorted(pr.completed_categories),
     category_pages |->
         {<<ToString(c), pr.category_pages[c]>> :
              c \in {d \in Cats : pr.category_pages[d] # 0}}]

\* json.load(f): the list (read as the set the crawl makes of it) and the
\* object, whose members are looked up by str(category_id).
json_load(doc) ==
    [completed_categories |->
         {doc.completed_categories[i] : i \in 1..Len(doc.completed_categories)},
     category_pages |->
         [c \in Cats |->
             IF \E kv \in doc.category_pages : kv[1] = ToString(c)
             THEN (CHOOSE kv \in doc.category_pages : kv[1] = ToString(c))[2]
             ELSE 0]]

\* A loader that returns the default structure whatever the file holds.
load_progress_default(f) == EmptyProgress

\* load_progress: the saved document; the default structure when there is
\* no file or json.load raises.
load_progress(f) ==
    IF f = None \/ f \in TornFiles THEN EmptyProgress ELSE json_load(f)

\* save_progress: the whole dict is serialised and written.
save_progress(pr) == json_dumps(pr)

\* process_category_async: int(progress["category_pages"].get(str(id), 1))
StartPageOf(pr, c) ==
    IF pr.category_pages[c] = 0 THEN 1 ELSE pr.category_pages[c]

\* process_page: category_pages[str(category_id)] = page + 1
SetCursorStale(pr, c, p) ==
    [EmptyProgress EXCEPT !.category_pages[c] = p + 1]
SetCursor(pr, c, p) == [pr EXCEPT !.category_pages[c] = p + 1]

\* A completion that forgets to delete the category's cursor key.
MarkCompletedKeepKey(pr, c) ==
    [pr EXCEPT !.completed_categories = @ \cup {c}]

\* process_category_async: completed.add(id); del cp[str(id)]
MarkCompleted(pr, c) ==
    [completed_categories |-> pr.completed_categories \cup {c},
     category_pages |-> [pr.category_pages EXCEPT ![c] = 0]]

\* A scheduler that does not filter the completed categories.
EligibleAlways(c, done) == TRUE

\* parse_all_products_async: [(cid, slug) ... if cid not in completed]
Eligible(c, done) == c \notin done

\* ------------------------------------------------------------------- site
\* A listing page as the crawl reads it: the page numbers of its
\* pagination links (page__N) and the number of items the parser retains.
Htmls(last) ==
    [markers : {{}} \cup {{n} : n \in 0..last}, items : {0, ItemsPerPage}]

Max(S) == CHOOSE x \in S : \A y \in S : y <= x

\* get_total_pages: 0 without html, 1 without markers, else the largest.
get_total_pages(html) ==
    IF html = None THEN 0
    ELSE IF html.markers = {} THEN 1 ELSE Max(html.markers)

\* async_get_total_pages
async_get_total_pages(html) ==
    IF html # None THEN get_total_pages(html) ELSE 0

\* sku of the i-th retained item of page p of category c.
Rows(c, p, n) == {<<c, p, i>> : i \in 1..n}

\* A sink that replaces the table by the batch instead of merging it.
upsert_replace(st, batch) == batch

\* upsert_products: INSERT ... ON CONFLICT (sku) DO UPDATE
upsert_products(st, batch) == st \cup batch

\* ---------------------------------------------------------------- proxies
\* load_proxies_from_db: the proxy URLs of the live rows.
ProxyDb == [i \in 1..NumProxies |-> ToString(i)]

\* next() of an empty rotator returns None.
NoProxy == "None"

\* random.shuffle: any order of the same elements.
Shuffles(list) ==
    {s \in [1..Len(list) -> {list[i] : i \in 1..Len(list)}] :
        \A i, j \in 1..Len(list) : i # j => s[i] # s[j]}

\* ProxyRotator.next: the value returned, and the index it leaves.
rotator_value(px, i) == IF px = <<>> THEN NoProxy ELSE px[i + 1]
rotator_index_stuck(px, i) == i
rotator_index(px, i) == IF px = <<>> THEN i ELSE (i + 1) % Len(px)

\* AsyncHttpClientPool.get_client: key = proxy_url or "__direct__"; the
\* client of a key is created on the first call and kept.
client_key(proxy_url) == IF proxy_url = NoProxy THEN "__direct__" ELSE proxy_url
get_client(pool, proxy_url) == pool \cup {client_key(proxy_url)}

\* --------------------------------------------------------------- scheduling
\* A crawl that forgets the resume cursor: range(1, total_pages + 1).
PageRangeFromOne(sp, tp) == 1..tp

\* range(start_page, total_pages + 1)
PageRange(sp, tp) == sp..tp

Min(S) == CHOOSE x \in S : \A y \in S : x <= y

\* Page tasks of c waiting for the page semaphore, category tasks waiting
\* for their turn, and categories inside process_category_async.
Waiting(c) == {p \in Pages : pagePc[c][p] = "waiting"}
Queued == {c \in Cats : catPc[c] = "queued"}
Active == {c \in Cats : catPc[c] \in {"sizing", "pages"}}

\* Page tasks inside the semaphore block: GET issued, result not returned.
InFlight(c) ==
    {p \in Pages : pagePc[c][p] \in {"fetching", "upserting", "upserted"}}

\* A category that waits for its pages to succeed.
FinishedOnSuccess == {"ok"}

\* A category that takes a stored page, whose cursor is not yet written,
\* for a finished one.
FinishedOrStored == {"nofetch", "empty", "ok", "raised", "upserted"}

\* Results of a page task: False without html, False without items, True,
\* or the exception of the upsert.
Finished == {"nofetch", "empty", "ok", "raised"}

NoPages == [p \in Pages |-> "none"]

\* A semaphore that never blocks.
sem_always_free(value) == TRUE

\* asyncio.Semaphore: acquire succeeds while the value is positive.
sem_free(value) == value > 0

\* parse_all_products_async guards cat_worker with the category semaphore;
\* parse_selected_categories_async awaits the categories one after another.
MayEnter ==
    IF entry = "all" THEN sem_free(catSem) ELSE Active = {}
Enter == IF entry = "all" THEN catSem - 1 ELSE catSem
Leave == IF entry = "all" THEN catSem + 1 ELSE catSem

RunsOf(e) == IF e = "all" THEN MaxRunsAll ELSE MaxRuns

\* The categories the entry point reads from tr_categories, and the pages
\* the site serves to it.
CategoriesOf(e) == IF e = "all" THEN Cats ELSE SELECTED_CATEGORY_IDS \cap Cats
SitePagesOf(e) == IF e = "all" THEN MaxPagesAll ELSE MaxPages
Responses == Htmls(SitePagesOf(entry)) \cup {None}

InitMemory ==
    /\ progress = EmptyProgress
    /\ completed = {}
    /\ rot_proxies = <<>>
    /\ rot_idx = 0
    /\ clients = {}
    /\ catSem = MAX_CONCURRENT_CATEGORIES
    /\ catPc = [c \in Cats |-> "idle"]
    /\ start_page = [c \in Cats |-> 0]
    /\ total_pages = [c \in Cats |-> 0]
    /\ pageSem = [c \in Cats |-> 0]
    /\ pagePc = [c \in Cats |-> NoPages]
    /\ pool_made = FALSE
    /\ aclose_calls = 0

InitStorage ==
    /\ file = None
    /\ store = {}
    /\ run = "idle"
    /\ runNo = 0

\* ------------------------------------------------- async_fetch_listing
\* Delays are in milliseconds.
ASYNC_BASE_DELAY == 250
MAX_BACKOFF == 8000
FETCH_ATTEMPTS == 4

RetryStatuses == {429, 500, 502, 503, 504}
RetryExceptions ==
    {"ReadTimeout", "ConnectTimeout", "RemoteProtocolError", "ConnectError"}

\* What one client.get can do: return a response (exc = "") or raise.
Replies == [exc : {""}, status : {200, 404, 503}, text : {"", "body"}]
GetOutcomes ==
    Replies \cup
    [exc : {"ReadTimeout", "ConnectError", "ValueError"},
     status : {0}, text : {""}]

is_body(r) == r.exc = "" /\ r.status = 200 /\ r.text # ""
is_transient(r) ==
    IF r.exc = "" THEN r.status \in RetryStatuses
    ELSE r.exc \in RetryExceptions

\* A returned str, as opposed to None.
Returned(text) == [text |-> text]

\* The return None inside the loop and the return None after it.
non_retryable_result == None
exhausted_result == None

next_backoff_flat(b) == b
next_backoff(b) == IF b * 2 < MAX_BACKOFF THEN b * 2 ELSE MAX_BACKOFF

\* range(4) has another value after attempt.
more_attempts_always(attempt) == TRUE
more_attempts(attempt) == attempt + 1 < FETCH_ATTEMPTS

InitFetch ==
    /\ f_pc = "idle"
    /\ f_attempt = 0
    /\ f_backoff = 0
    /\ f_result = None
    /\ f_gets = 0
    /\ f_log = <<>>
    /\ f_sleeps = <<>>

\* The call up to the first await: the first client.get is issued.
FetchCall ==
    /\ f_pc = "idle"
    /\ f_pc' = "get"
    /\ f_attempt' = 0
    /\ f_backoff' = ASYNC_BASE_DELAY
    /\ f_gets' = f_gets + 1
    /\ UNCHANGED <<f_result, f_log, f_sleeps>>
    /\ UNCHANGED <<seqVars, schedVars, egressVars, sinkVars, priceVars, parserVars>>

\* client.get returns or raises: return the body, return None, or start
\* the sleep before the next attempt.
GetReturns(r) ==
    /\ f_pc = "get"
    /\ f_log' = Append(f_log, r)
    /\ IF is_body(r)
       THEN /\ f_pc' = "done"
            /\ f_result' = Returned(r.text)
            /\ UNCHANGED f_sleeps
       ELSE IF is_transient(r)
       THEN /\ f_pc' = "sleep"
            /\ f_sleeps' = Append(f_sleeps, f_backoff)
            /\ UNCHANGED f_result
       ELSE /\ f_pc' = "done"
            /\ f_result' = non_retryable_result
            /\ UNCHANGED f_sleeps
    /\ UNCHANGED <<f_attempt, f_backoff, f_gets>>
    /\ UNCHANGED <<seqVars, schedVars, egressVars, sinkVars, priceVars, parserVars>>

\* asyncio.sleep returns: double the backoff, then the next client.get, or
\* the return None after the loop.
SleepReturns ==
    /\ f_pc = "sleep"
    /\ f_backoff' = next_backoff(f_backoff)
    /\ IF more_attempts(f_attempt)
       THEN /\ f_pc' = "get"
            /\ f_attempt' = f_attempt + 1
            /\ f_gets' = f_gets + 1
            /\ UNCHANGED f_result
       ELSE /\ f_pc' = "done"
            /\ f_result' = exhausted_result
            /\ UNCHANGED <<f_attempt, f_gets>>
    /\ UNCHANGED <<f_log, f_sleeps>>
    /\ UNCHANGED <<seqVars, schedVars, egressVars, sinkVars, priceVars, parserVars>>

NextFetch ==
    \/ FetchCall
    \/ \E r \in GetOutcomes : GetReturns(r)
    \/ SleepReturns

\* ------------------------------- ProxyRotator, AsyncHttpClientPool
MaxPool == 3
NumWorkers == 2
MaxCalls == 6

Workers == 1..NumWorkers
ProxyList(n) == [i \in 1..n |-> ToString(i)]

\* self._clients.get(key) finds a client; the client it finds.
pool_has_never(cl, key) == FALSE
pool_has(cl, key) == \E e \in cl : e[1] = key
pool_client(cl, key) == (CHOOSE e \in cl : e[1] = key)[2]

InitEgress ==
    /\ r_built = FALSE
    /\ r_proxies = <<>>
    /\ r_idx = 0
    /\ p_clients = {}
    /\ p_created = 0
    /\ r_calls = <<>>

\* ProxyRotator(proxies) and AsyncHttpClientPool().
EgressNew(n) ==
    /\ ~r_built
    /\ r_built' = TRUE
    /\ r_proxies' \in Shuffles(ProxyList(n))
    /\ r_idx' = 0
    /\ p_clients' = {}
    /\ UNCHANGED <<p_created, r_calls>>
    /\ UNCHANGED <<seqVars, schedVars, fetchVars, sinkVars, priceVars, parserVars>>

\* proxy_url = proxy_rotator.next(); client = await
\* client_pool.get_client(proxy_url): neither suspends, so a worker runs
\* both in one stretch.
EgressCall(w) ==
    /\ r_built
    /\ Len(r_calls) < MaxCalls
    /\ LET proxy_url == rotator_value(r_proxies, r_idx)
           key == client_key(proxy_url)
           found == pool_has(p_clients, key)
           client == IF found THEN pool_client(p_clients, key)
                     ELSE p_created + 1
       IN /\ r_idx' = rotator_index(r_proxies, r_idx)
          /\ p_created' = IF found THEN p_created ELSE p_created + 1
          /\ p_clients' =
                IF found THEN p_clients
                ELSE {e \in p_clients : e[1] # key} \cup {<<key, client>>}
          /\ r_calls' = Append(r_calls,
                [worker |-> w, proxy |-> proxy_url, key |-> key,
                 client |-> client])
    /\ UNCHANGED <<r_built, r_proxies>>
    /\ UNCHANGED <<seqVars, schedVars, fetchVars, sinkVars, priceVars, parserVars>>

NextEgress ==
    \/ \E n \in 0..MaxPool : EgressNew(n)
    \/ \E w \in Workers : EgressCall(w)

\* ----------------------------------------------------- upsert_products
NumSkus == 2
NumPrices == 2
MaxBatch == 2
MaxApplied == 4

\* The records a page can yield: name is the sku, price stands for the
\* columns the statement overwrites.
Records == [name : 1..NumSkus, price : 1..NumPrices]
Batches == UNION {[1..n -> Records] : n \in 1..MaxBatch}

\* INSERT ... VALUES (%(name)s, %(price)s, ...).
row_of(rec) == [sku |-> rec.name, price |-> rec.price]

\* One execution of the statement: ON CONFLICT (sku) DO UPDATE SET.
insert_only(table, rec) == table \cup {row_of(rec)}
on_conflict_update(table, rec) ==
    {r \in table : r.sku # rec.name} \cup {row_of(rec)}

\* cur.executemany: the statement once per record, in order.
RECURSIVE executemany(_, _)
executemany(table, batch) ==
    IF batch = <<>> THEN table
    ELSE executemany(on_conflict_update(table, Head(batch)), Tail(batch))

InitSink ==
    /\ t_rows = {}
    /\ t_log = <<>>

\* upsert_products(batch), committed.
Upsert(batch) ==
    /\ Len(t_log) + Len(batch) <= MaxApplied
    /\ t_rows' = executemany(t_rows, batch)
    /\ t_log' = t_log \o batch
    /\ UNCHANGED <<seqVars, schedVars, fetchVars, egressVars, priceVars, parserVars>>

NextSink == \E batch \in Batches : Upsert(batch)

\* --------------------------------------------------------- parse_price
\* A text is a sequence of characters; "nbsp" stands for U+00A0, "rub"
\* for the rouble sign, "dash" for U+2014.
MaxText == 4

Digits == {"0", "1", "2", "3", "4", "5", "6", "7", "8", "9"}
DigitValue(ch) ==
    CASE ch = "0" -> 0 [] ch = "1" -> 1 [] ch = "2" -> 2 [] ch = "3" -> 3
      [] ch = "4" -> 4 [] ch = "5" -> 5 [] ch = "6" -> 6 [] ch = "7" -> 7
      [] ch = "8" -> 8 [] ch = "9" -> 9

\* \s of a str pattern: the space and every other whitespace character.
Whitespace == {" ", "nbsp", "\t", "\n", "\r"}

\* The characters the bounded inputs are made of.
Alphabet == {"1", "5", " ", "nbsp", "\n", ",", "rub"}

Str(n) == UNION {[1..k -> Alphabet] : k \in 0..n}

\* text.replace(a, b).
replace_char(text, a, b) ==
    [i \in 1..Len(text) |-> IF text[i] = a THEN b ELSE text[i]]

\* text.replace(a, "").
RECURSIVE remove_char(_, _)
remove_char(text, a) ==
    IF text = <<>> THEN <<>>
    ELSE IF Head(text) = a THEN remove_char(Tail(text), a)
    ELSE <<Head(text)>> \o remove_char(Tail(text), a)

\* PRICE_RE.search(t): group 1 starts at the first digit and takes the
\* digits and whitespace that follow, as many as there are; group 2 is
\* the two digits after a '.' or ',' right behind group 1, when present.
Group1Chars == Digits \cup Whitespace
HasMatch(t) == \E i \in 1..Len(t) : t[i] \in Digits
MatchStart(t) == CHOOSE i \in 1..Len(t) :
    /\ t[i] \in Digits
    /\ \A j \in 1..(i - 1) : t[j] \notin Digits
MatchEnd(t) == CHOOSE e \in MatchStart(t)..Len(t) :
    /\ \A j \in MatchStart(t)..e : t[j] \in Group1Chars
    /\ e = Len(t) \/ t[e + 1] \notin Group1Chars
Group1(t) == SubSeq(t, MatchStart(t), MatchEnd(t))
HasGroup2(t) ==
    LET e == MatchEnd(t)
    IN /\ e + 3 <= Len(t)
       /\ t[e + 1] \in {".", ","}
       /\ t[e + 2] \in Digits
       /\ t[e + 3] \in Digits
Group2(t) == SubSeq(t, MatchEnd(t) + 2, MatchEnd(t) + 3)

\* float(s) of a string made of digits only, times 100 when s is the
\* whole part.
RECURSIVE DecimalValue(_)
DecimalValue(ds) ==
    IF ds = <<>> THEN 0
    ELSE 10 * DecimalValue(SubSeq(ds, 1, Len(ds) - 1))
            + DigitValue(ds[Len(ds)])

\* A returned float, in hundredths, as opposed to None.
Price(hundredths) == [hundredths |-> hundredths]

\* float(f"{whole}.{cents}") raises ValueError when whole holds anything
\* but digits; the except clause turns that into None.
parse_price(text) ==
    IF text = <<>> THEN None
    ELSE LET t == replace_char(text, "nbsp", " ")
         IN IF ~HasMatch(t) THEN None
            ELSE LET whole == remove_char(Group1(t), " ")
                     cents == IF HasGroup2(t) THEN Group2(t)
                              ELSE <<"0", "0">>
                 IN IF \E i \in 1..Len(whole) : whole[i] \notin Digits
                    THEN None
                    ELSE Price(100 * DecimalValue(whole)
                                  + DecimalValue(cents))

\* The texts parse_price is applied to: every short text over the
\* alphabet, and longer ones as they stand on a listing page.
PriceExamples ==
    { <<"1", "2", " ", "3", "4", "5", ",", "6", "7", " ", "rub">>,
      <<"1", "2", "nbsp", "3", "4", "5", ".", "6", "7", "nbsp", "rub">>,
      <<"9", "9", "9">>,
      <<"dash">>,
      <<"1", "2", ",", "5">>,
      <<"1", " ", "2", "0", "0", "\n", " ", "rub">> }
PriceTexts == Str(MaxText) \cup PriceExamples

InitPrice(text) ==
    /\ pp_text = text
    /\ pp_done = FALSE
    /\ pp_result = None

\* parse_price(text) runs to its return.
ParsePrice ==
    /\ ~pp_done
    /\ pp_done' = TRUE
    /\ pp_result' = parse_price(pp_text)
    /\ UNCHANGED pp_text
    /\ UNCHANGED <<seqVars, schedVars, fetchVars, egressVars, sinkVars, parserVars>>

NextPrice == ParsePrice

\* ------------------------------------ ListingParser, extract_products
\* The parser sees a page as the events HTMLParser delivers: start tags,
\* end tags and text nodes. Of a tag only what the parser reacts to is
\* kept: its name and whether it is an item's <li>, a name <meta>, a price
\* block, the characteristics list or the name link. product_img, slug and
\* the data-product-name attribute are carried by an item but decide
\* nothing and are left out.
NumItems == 2
MaxEvents == 4
MIN_NAME_LEN == 10

\* <li class="listing-cards__item" data-product-id=pid>.
ItemTag(pid) == [kind |-> "item", tag |-> "li", pid |-> pid, text |-> <<>>]
\* <meta itemprop="name" content=text>.
MetaTag(text) == [kind |-> "meta", tag |-> "meta", pid |-> 0, text |-> text]
\* A start tag whose class holds "price"; any other start tag, and a <li>
\* that opens no item; <ul class="listing-cards__list">;
\* <a class="listing-cards__link">; an end tag.
PriceTag == [kind |-> "price", tag |-> "span", pid |-> 0, text |-> <<>>]
OtherTag == [kind |-> "tag", tag |-> "div", pid |-> 0, text |-> <<>>]
LiTag == [kind |-> "tag", tag |-> "li", pid |-> 0, text |-> <<>>]
ListTag == [kind |-> "list", tag |-> "ul", pid |-> 0, text |-> <<>>]
LinkTag == [kind |-> "link", tag |-> "a", pid |-> 0, text |-> <<>>]
EndTag(tag) == [kind |-> "end", tag |-> tag, pid |-> 0, text |-> <<>>]
\* A text node.
Data(text) == [kind |-> "data", tag |-> "", pid |-> 0, text |-> text]

TextPrice == <<"1", "5">>
TextName == <<"W", "i", "d", "g", "e", "t", "s", " ", "X", "L">>
TextBoth == TextPrice \o <<"|">> \o TextName
TextBlank == <<" ">>

Events ==
    {ItemTag(pid) : pid \in 1..NumItems}
        \cup {MetaTag(<<"A">>), PriceTag, OtherTag, LiTag, ListTag, LinkTag}
        \cup {EndTag(tag) : tag \in {"div", "li", "a"}}
        \cup {Data(t) : t \in {TextPrice, TextName, TextBoth, TextBlank}}

\* str.strip().
RECURSIVE lstrip(_)
lstrip(t) ==
    IF t # <<>> /\ Head(t) \in Whitespace THEN lstrip(Tail(t)) ELSE t
RECURSIVE rstrip(_)
rstrip(t) ==
    IF t # <<>> /\ t[Len(t)] \in Whitespace
    THEN rstrip(SubSeq(t, 1, Len(t) - 1)) ELSE t
strip(t) == rstrip(lstrip(t))

\* " ".join(buf).
RECURSIVE join_space(_)
join_space(buf) ==
    IF buf = <<>> THEN <<>>
    ELSE IF Len(buf) = 1 THEN buf[1]
    ELSE buf[1] \o <<" ">> \o join_space(Tail(buf))

\* re.split(r"\s{2,}|[|\n\r]", full_text): position i belongs to a
\* separator.
IsSep(t, i) ==
    \/ t[i] \in {"|", "\n", "\r"}
    \/ /\ t[i] \in Whitespace
       /\ \/ i > 1 /\ t[i - 1] \in Whitespace
          \/ i < Len(t) /\ t[i + 1] \in Whitespace
PieceStarts(t) ==
    {i \in 1..Len(t) : ~IsSep(t, i) /\ (i = 1 \/ IsSep(t, i - 1))}
PieceAt(t, i) ==
    SubSeq(t, i, CHOOSE e \in i..Len(t) :
                    /\ \A j \in i..e : ~IsSep(t, j)
                    /\ e = Len(t) \/ IsSep(t, e + 1))

\* The first piece that is no price and has at least 10 characters.
IsNamePiece(p) ==
    /\ p # <<>>
    /\ ~HasMatch(p)
    /\ Len(p) >= MIN_NAME_LEN
name_from_text(full_text) ==
    LET good == {i \in PieceStarts(full_text) :
                    IsNamePiece(strip(PieceAt(full_text, i)))}
    IN IF good = {} THEN <<>>
       ELSE strip(PieceAt(full_text, Min(good)))

\* _finalize_item: the item appended to items.
finalize_item(cur, text_buf, price_text_buf) ==
    LET full_text == strip(join_space(text_buf))
        in_price == strip(join_space(price_text_buf))
        price_text == IF in_price # <<>> THEN in_price ELSE full_text
        name == IF cur.name # <<>> THEN cur.name
                ELSE name_from_text(full_text)
    IN [pid |-> cur.pid,
        name |-> name,
        price |-> parse_price(price_text),
        product_name |-> IF cur.product_name # <<>> THEN cur.product_name
                         ELSE name,
        product_characs |-> cur.product_characs]

\* The filter of extract_products_from_html.
retained_all(it) == TRUE
retained(it) == it.name # <<>> /\ it.price # None

InitParser(page) ==
    /\ ps_page = page
    /\ ps_pos = 0
    /\ ps_items = <<>>
    /\ ps_in_item = FALSE
    /\ ps_depth = 0
    /\ ps_cur = None
    /\ ps_text_buf = <<>>
    /\ ps_in_price_block = FALSE
    /\ ps_price_text_buf = <<>>
    /\ ps_in_characs_list = FALSE
    /\ ps_characs_depth = 0
    /\ ps_in_char_li = FALSE
    /\ ps_char_li_buf = <<>>
    /\ ps_in_name_link = FALSE
    /\ ps_name_link_buf = <<>>
    /\ ps_closed = FALSE
    /\ pw_result = "pending"
    /\ pw_batches = <<>>
    /\ ps_out = <<>>

\* A page with one complete item and one item without a price, in either
\* order, with <meta> written as a void element or closed as <meta/>.
PageGoodThenPriceless ==
    <<ItemTag(1), MetaTag(<<"A">>), PriceTag, Data(TextPrice),
      EndTag("div"), EndTag("li"), ItemTag(2), MetaTag(<<"B">>),
      EndTag("li")>>
PagePricelessThenGood ==
    <<ItemTag(2), MetaTag(<<"B">>), Data(TextName), EndTag("li"),
      ItemTag(1), MetaTag(<<"A">>), PriceTag, Data(TextPrice),
      EndTag("div"), EndTag("li")>>
PageClosedMeta ==
    <<ItemTag(1), MetaTag(<<"A">>), EndTag("div"), PriceTag,
      Data(TextPrice), EndTag("div"), EndTag("li"), ItemTag(2),
      MetaTag(<<"B">>), EndTag("div"), EndTag("li")>>
\* A second item begins while the name link of the first is open, and
\* while a characteristic of the first is open.
PageUnclosedLink ==
    <<ItemTag(1), LinkTag, Data(TextName), ItemTag(2), Data(TextPrice),
      EndTag("a"), EndTag("li")>>
PageUnclosedCharacteristic ==
    <<ItemTag(1), ListTag, LiTag, Data(TextName), ItemTag(2),
      Data(TextPrice), EndTag("li")>>
ExamplePages ==
    {PageGoodThenPriceless, PagePricelessThenGood, PageClosedMeta}
RecoveryPages == {PageUnclosedLink, PageUnclosedCharacteristic}

ListingPages ==
    UNION {[1..n -> Events] : n \in 0..MaxEvents}
        \cup ExamplePages \cup RecoveryPages

\* The event feed() delivers next.
NextEvent == ps_page[ps_pos + 1]
Delivers(kinds) ==
    /\ pw_result = "pending"
    /\ ~ps_closed
    /\ ps_pos < Len(ps_page)
    /\ NextEvent.kind \in kinds

\* items after _finalize_item of the open item.
ItemsFinalized ==
    Append(ps_items, finalize_item(ps_cur, ps_text_buf, ps_price_text_buf))

\* handle_starttag of an item's <li>: the item still open is finalized,
\* the new one begins. The flags and buffers of the characteristics list
\* and of the name link are not touched.
FeedItemTag ==
    /\ Delivers({"item"})
    /\ ps_pos' = ps_pos + 1
    /\ ps_items' = IF ps_in_item THEN ItemsFinalized ELSE ps_items
    /\ ps_in_item' = TRUE
    /\ ps_depth' = 1
    /\ ps_cur' = [pid |-> NextEvent.pid, name |-> <<>>, price |-> None,
                  product_name |-> <<>>, product_characs |-> <<>>]
    /\ ps_text_buf' = <<>>
    /\ ps_in_price_block' = FALSE
    /\ ps_price_text_buf' = <<>>
    /\ UNCHANGED <<ps_in_characs_list, ps_characs_depth, ps_in_char_li,
                   ps_char_li_buf, ps_in_name_link, ps_name_link_buf>>
    /\ UNCHANGED <<ps_page, ps_closed, ps_out>>
    /\ UNCHANGED <<pw_result, pw_batches>>
    /\ UNCHANGED <<seqVars, schedVars, fetchVars, egressVars, sinkVars, priceVars>>

\* handle_starttag of any other tag: inside an item the depth grows, a
\* meta name is taken, a price block begins, the characteristics list
\* begins (and the handler returns), a tag inside the list deepens it and
\* a <li> there begins a characteristic, the name link begins.
FeedStartTag ==
    /\ Delivers({"meta", "price", "tag", "list", "link"})
    /\ ps_pos' = ps_pos + 1
    /\ IF ps_in_item
       THEN /\ ps_depth' = ps_depth + 1
            /\ ps_cur' =
                  IF NextEvent.kind = "meta" /\ NextEvent.text # <<>>
                  THEN [ps_cur EXCEPT !.name = strip(NextEvent.text)]
                  ELSE ps_cur
            /\ ps_in_price_block' =
                  (ps_in_price_block \/ NextEvent.kind = "price")
            /\ IF NextEvent.kind = "list"
               THEN /\ ps_in_characs_list' = TRUE
                    /\ ps_characs_depth' = 1
                    /\ UNCHANGED <<ps_in_char_li, ps_char_li_buf,
                                   ps_in_name_link, ps_name_link_buf>>
               ELSE /\ ps_characs_depth' =
                          IF ps_in_characs_list THEN ps_characs_depth + 1
                          ELSE ps_characs_depth
                    /\ IF ps_in_characs_list /\ NextEvent.tag = "li"
                       THEN ps_in_char_li' = TRUE /\ ps_char_li_buf' = <<>>
                       ELSE UNCHANGED <<ps_in_char_li, ps_char_li_buf>>
                    /\ IF NextEvent.kind = "link"
                       THEN /\ ps_in_name_link' = TRUE
                            /\ ps_name_link_buf' = <<>>
                       ELSE UNCHANGED <<ps_in_name_link, ps_name_link_buf>>
                    /\ UNCHANGED ps_in_characs_list
       ELSE UNCHANGED <<ps_depth, ps_cur, ps_in_price_block,
                        ps_in_characs_list, ps_characs_depth, ps_in_char_li,
                        ps_char_li_buf, ps_in_name_link, ps_name_link_buf>>
    /\ UNCHANGED <<ps_page, ps_items, ps_in_item, ps_text_buf,
                   ps_price_text_buf, ps_closed, ps_out>>
    /\ UNCHANGED <<pw_result, pw_batches>>
    /\ UNCHANGED <<seqVars, schedVars, fetchVars, egressVars, sinkVars, priceVars>>

\* One entry of product_characs made of a text without ':' or dash: the
\* split finds no separator, so char is empty and value is the text.
characteristic(text) == [char |-> <<>>, value |-> text]

\* handle_endtag, first part: _cur after a </li> has closed a
\* characteristic and after a </a> has closed the name link.
CurAfterCharLi ==
    LET text == strip(join_space(ps_char_li_buf))
    IN IF ps_in_char_li /\ NextEvent.tag = "li" /\ ps_cur # None
          /\ text # <<>>
       THEN [ps_cur EXCEPT !.product_characs =
                               Append(@, characteristic(text))]
       ELSE ps_cur
CurAfterEndTag ==
    LET text == strip(join_space(ps_name_link_buf))
    IN IF ps_in_name_link /\ NextEvent.tag = "a" /\ CurAfterCharLi # None
          /\ text # <<>>
       THEN [CurAfterCharLi EXCEPT !.product_name = text]
       ELSE CurAfterCharLi

\* handle_endtag: a characteristic, the list and the name link are closed
\* whether or not the parser is inside an item; inside an item the depth
\* shrinks, and at 0 the item is finalized.
FeedEndTag ==
    /\ Delivers({"end"})
    /\ ps_pos' = ps_pos + 1
    /\ IF ps_in_char_li /\ NextEvent.tag = "li"
       THEN ps_in_char_li' = FALSE /\ ps_char_li_buf' = <<>>
       ELSE UNCHANGED <<ps_in_char_li, ps_char_li_buf>>
    /\ IF ps_in_characs_list
       THEN /\ ps_characs_depth' = ps_characs_depth - 1
            /\ ps_in_characs_list' = (ps_characs_depth - 1 > 0)
       ELSE UNCHANGED <<ps_characs_depth, ps_in_characs_list>>
    /\ IF ps_in_name_link /\ NextEvent.tag = "a"
       THEN ps_in_name_link' = FALSE /\ ps_name_link_buf' = <<>>
       ELSE UNCHANGED <<ps_in_name_link, ps_name_link_buf>>
    /\ ps_depth' = IF ps_in_item THEN ps_depth - 1 ELSE ps_depth
    /\ IF ps_in_item /\ ps_depth - 1 = 0
       THEN /\ ps_items' =
                  Append(ps_items, finalize_item(CurAfterEndTag, ps_text_buf,
                                                 ps_price_text_buf))
            /\ ps_in_item' = FALSE
            /\ ps_cur' = None
            /\ ps_text_buf' = <<>>
            /\ ps_in_price_block' = FALSE
            /\ ps_price_text_buf' = <<>>
       ELSE /\ ps_cur' = CurAfterEndTag
            /\ UNCHANGED <<ps_items, ps_in_item, ps_text_buf,
                           ps_in_price_block, ps_price_text_buf>>
    /\ UNCHANGED <<ps_page, ps_closed, ps_out>>
    /\ UNCHANGED <<pw_result, pw_batches>>
    /\ UNCHANGED <<seqVars, schedVars, fetchVars, egressVars, sinkVars, priceVars>>

\* handle_data: inside an item the stripped text, unless empty, goes to
\* the text buffer, to the price buffer inside a price block, to the
\* buffer of the characteristic and to the buffer of the name link.
FeedData ==
    /\ Delivers({"data"})
    /\ ps_pos' = ps_pos + 1
    /\ LET st == strip(NextEvent.text)
       IN IF ps_in_item /\ st # <<>>
          THEN /\ ps_text_buf' = Append(ps_text_buf, st)
               /\ ps_price_text_buf' =
                     IF ps_in_price_block THEN Append(ps_price_text_buf, st)
                     ELSE ps_price_text_buf
               /\ ps_char_li_buf' =
                     IF ps_in_char_li THEN Append(ps_char_li_buf, st)
                     ELSE ps_char_li_buf
               /\ ps_name_link_buf' =
                     IF ps_in_name_link THEN Append(ps_name_link_buf, st)
                     ELSE ps_name_link_buf
          ELSE UNCHANGED <<ps_text_buf, ps_price_text_buf, ps_char_li_buf,
                           ps_name_link_buf>>
    /\ UNCHANGED <<ps_page, ps_items, ps_in_item, ps_depth, ps_cur,
                   ps_in_price_block, ps_in_characs_list, ps_characs_depth,
                   ps_in_char_li, ps_in_name_link, ps_closed, ps_out>>
    /\ UNCHANGED <<pw_result, pw_batches>>
    /\ UNCHANGED <<seqVars, schedVars, fetchVars, egressVars, sinkVars, priceVars>>

\* parser.close() and the filter: the item still open is finalized, the
\* items with a name and a price are returned.
CloseAndFilter ==
    /\ pw_result = "pending"
    /\ ~ps_closed
    /\ ps_pos = Len(ps_page)
    /\ ps_closed' = TRUE
    /\ ps_items' = IF ps_in_item THEN ItemsFinalized ELSE ps_items
    /\ ps_out' = SelectSeq(ps_items', retained)
    /\ ps_in_item' = FALSE
    /\ ps_cur' = None
    /\ ps_text_buf' = <<>>
    /\ ps_in_price_block' = FALSE
    /\ ps_price_text_buf' = <<>>
    /\ UNCHANGED <<ps_in_characs_list, ps_characs_depth, ps_in_char_li,
                   ps_char_li_buf, ps_in_name_link, ps_name_link_buf>>
    /\ UNCHANGED <<ps_page, ps_pos, ps_depth>>
    /\ UNCHANGED <<pw_result, pw_batches>>
    /\ UNCHANGED <<seqVars, schedVars, fetchVars, egressVars, sinkVars, priceVars>>

\* process_page: the record of the batch made of an item.
batch_record(it) ==
    [name |-> it.name, price |-> it.price, product_id |-> it.pid,
     product_name |-> it.product_name, product_characs |-> it.product_characs]

\* A page worker that does not look at the number of items.
no_items_never(items) == FALSE

\* process_page: if not items
no_items(items) == items = <<>>

\* process_page when async_fetch_listing returned None: it returns False
\* and the page is not parsed.
ProcessPageNoHtml ==
    /\ pw_result = "pending"
    /\ ps_pos = 0 /\ ~ps_closed
    /\ pw_result' = "no_html"
    /\ UNCHANGED <<ps_page, ps_pos, ps_items, ps_in_item, ps_depth, ps_cur,
                   ps_text_buf, ps_in_price_block, ps_price_text_buf,
                   ps_in_characs_list, ps_characs_depth, ps_in_char_li,
                   ps_char_li_buf, ps_in_name_link, ps_name_link_buf,
                   ps_closed, ps_out, pw_batches>>
    /\ UNCHANGED <<seqVars, schedVars, fetchVars, egressVars, sinkVars, priceVars>>

\* process_page after extract_products_from_html: without items it returns
\* False; otherwise it makes the batch and passes it to upsert_products.
ProcessPageBatch ==
    /\ pw_result = "pending"
    /\ ps_closed
    /\ IF no_items(ps_out)
       THEN pw_result' = "no_items" /\ UNCHANGED pw_batches
       ELSE /\ pw_batches' =
                  Append(pw_batches,
                         [i \in 1..Len(ps_out) |-> batch_record(ps_out[i])])
            /\ pw_result' = "upsert"
    /\ UNCHANGED <<ps_page, ps_pos, ps_items, ps_in_item, ps_depth, ps_cur,
                   ps_text_buf, ps_in_price_block, ps_price_text_buf,
                   ps_in_characs_list, ps_characs_depth, ps_in_char_li,
                   ps_char_li_buf, ps_in_name_link, ps_name_link_buf,
                   ps_closed, ps_out>>
    /\ UNCHANGED <<seqVars, schedVars, fetchVars, egressVars, sinkVars, priceVars>>

NextParser ==
    \/ FeedItemTag
    \/ FeedStartTag
    \/ FeedEndTag
    \/ FeedData
    \/ CloseAndFilter
    \/ ProcessPageNoHtml
    \/ ProcessPageBatch

\* ------------------------- parse_all_products, scrape_category_pages
SeqCats == 2
SeqPages == 2
SeqCatIds == 1..SeqCats
SeqPageNos == 1..SeqPages

\* A site with deterministic responses: a listing page or None (the GET
\* fails for good) for every page of every category. Only page 1 is read
\* for its pagination markers, so the other pages carry none.
Sites ==
    {site \in [SeqCatIds -> [SeqPageNos -> Htmls(SeqPages) \cup {None}]] :
        \A c \in SeqCatIds : \A p \in SeqPageNos \ {1} :
            site[c][p] # None => site[c][p].markers = {}}

\* The GET of a page; past the last page of the site there is nothing.
site_response(c, p) == IF p \in SeqPageNos THEN q_site[c][p] ELSE None

\* Checkpoint files a run can start from: none, one with the cursor of
\* category 1 at page 2, one with category 1 completed.
Checkpoints ==
    {None, save_progress(SetCursor(EmptyProgress, 1, 1)),
     save_progress(MarkCompleted(EmptyProgress, 1))}

InitSeq(site, f) ==
    /\ q_site = site
    /\ sq_pc = "idle"
    /\ sq_cat = 0
    /\ sq_page = 0
    /\ sq_progress = EmptyProgress
    /\ sq_file = f
    /\ sq_store = {}
    /\ sq_fetched = <<>>
    /\ sq_raised = {}
    /\ a1_pc = "idle"
    /\ a1_cat = 0
    /\ a1_page = 0
    /\ a1_total = 0
    /\ a1_progress = EmptyProgress
    /\ a1_completed = {}
    /\ a1_file = f
    /\ a1_store = {}
    /\ a1_fetched = <<>>
    /\ a1_raised = {}

a1Vars == <<a1_pc, a1_cat, a1_page, a1_total, a1_progress, a1_completed,
            a1_file, a1_store, a1_fetched, a1_raised>>
sqVars == <<sq_pc, sq_cat, sq_page, sq_progress, sq_file, sq_store,
            sq_fetched, sq_raised>>
notSeqVars ==
    <<schedVars, fetchVars, egressVars, sinkVars, priceVars, parserVars>>

\* parse_all_products reads the categories and loads the checkpoint.
SeqStart ==
    /\ sq_pc = "idle"
    /\ sq_progress' = load_progress(sq_file)
    /\ sq_cat' = 1
    /\ sq_pc' = "next"
    /\ UNCHANGED <<q_site, sq_page, sq_file, sq_store, sq_fetched, sq_raised>>
    /\ UNCHANGED <<a1Vars, notSeqVars>>

\* The for loop over the categories: a completed category is skipped, of
\* another the start page is read and scrape_category_pages is entered;
\* after the last category the function returns.
SeqNextCategory ==
    /\ sq_pc = "next"
    /\ IF sq_cat \notin SeqCatIds
       THEN sq_pc' = "done" /\ UNCHANGED <<sq_cat, sq_page>>
       ELSE IF sq_cat \in sq_progress.completed_categories
       THEN sq_cat' = sq_cat + 1 /\ UNCHANGED <<sq_pc, sq_page>>
       ELSE /\ sq_page' = StartPageOf(sq_progress, sq_cat)
            /\ sq_pc' = "listing"
            /\ UNCHANGED sq_cat
    /\ UNCHANGED <<q_site, sq_progress, sq_file, sq_store, sq_fetched,
                   sq_raised>>
    /\ UNCHANGED <<a1Vars, notSeqVars>>

\* scrape_category_pages: get_listing of the page. Without html or without
\* items the generator ends, the page loop ends, and the category is
\* marked completed and saved; otherwise the page is yielded.
SeqListing ==
    /\ sq_pc = "listing"
    /\ sq_fetched' = Append(sq_fetched, <<sq_cat, sq_page>>)
    /\ LET html == site_response(sq_cat, sq_page)
       IN IF html = None \/ html.items = 0
          THEN /\ sq_progress' = MarkCompleted(sq_progress, sq_cat)
               /\ sq_file' = save_progress(sq_progress')
               /\ sq_cat' = sq_cat + 1
               /\ sq_pc' = "next"
          ELSE /\ sq_pc' = "batch"
               /\ UNCHANGED <<sq_progress, sq_file, sq_cat>>
    /\ UNCHANGED <<q_site, sq_page, sq_store, sq_raised>>
    /\ UNCHANGED <<a1Vars, notSeqVars>>

\* The body of the page loop: the batch is upserted, the cursor is set to
\* page + 1 and saved; the generator moves to the next page.
SeqUpsert ==
    /\ sq_pc = "batch"
    /\ sq_store' = upsert_products(sq_store, Rows(sq_cat, sq_page, ItemsPerPage))
    /\ sq_progress' = SetCursor(sq_progress, sq_cat, sq_page)
    /\ sq_file' = save_progress(sq_progress')
    /\ sq_page' = sq_page + 1
    /\ sq_pc' = "listing"
    /\ UNCHANGED <<q_site, sq_cat, sq_fetched, sq_raised>>
    /\ UNCHANGED <<a1Vars, notSeqVars>>

\* upsert_products raises: the exception leaves the page loop, the except
\* clause of the category prints it and continues with the next category.
SeqUpsertRaise ==
    /\ sq_pc = "batch"
    /\ sq_raised' = sq_raised \cup {<<sq_cat, sq_page>>}
    /\ sq_cat' = sq_cat + 1
    /\ sq_pc' = "next"
    /\ UNCHANGED <<q_site, sq_page, sq_progress, sq_file, sq_store,
                   sq_fetched>>
    /\ UNCHANGED <<a1Vars, notSeqVars>>

\* ---- parse_all_products_async with MAX_CONCURRENT_CATEGORIES = 1 and
\* ---- MAX_CONCURRENT_PAGES_PER_CATEGORY = 1
\* The tasks take each semaphore in creation order, so one category worker
\* and one page task run at a time, by ascending id and page.

\* The entry point loads the checkpoint and drops the completed
\* categories; with none left it returns.
A1Start ==
    /\ sq_pc = "done"
    /\ a1_pc = "idle"
    /\ a1_progress' = load_progress(a1_file)
    /\ a1_completed' = a1_progress'.completed_categories
    /\ a1_cat' = 1
    /\ a1_pc' = IF \E c \in SeqCatIds : Eligible(c, a1_completed')
                THEN "next" ELSE "done"
    /\ UNCHANGED <<a1_page, a1_total, a1_file, a1_store, a1_fetched,
                   a1_raised>>
    /\ UNCHANGED <<q_site, sqVars, notSeqVars>>

\* The next category worker takes the semaphore: process_category_async
\* reads start_page and issues the GET of page 1 for the page count.
A1CatWorkerStart ==
    /\ a1_pc = "next"
    /\ a1_cat \in SeqCatIds
    /\ IF ~Eligible(a1_cat, a1_completed)
       THEN /\ a1_cat' = a1_cat + 1
            /\ UNCHANGED <<a1_pc, a1_page, a1_fetched>>
       ELSE /\ a1_page' = StartPageOf(a1_progress, a1_cat)
            /\ a1_fetched' = Append(a1_fetched, <<a1_cat, 1>>)
            /\ a1_pc' = "sizing"
            /\ UNCHANGED a1_cat
    /\ UNCHANGED <<a1_total, a1_progress, a1_completed, a1_file, a1_store,
                   a1_raised>>
    /\ UNCHANGED <<q_site, sqVars, notSeqVars>>

\* async_get_total_pages returns; total_pages <= 0 ends the category
\* without a checkpoint write.
A1SizingReturn ==
    /\ a1_pc = "sizing"
    /\ LET tp == async_get_total_pages(site_response(a1_cat, 1))
       IN IF tp <= 0
          THEN /\ a1_cat' = a1_cat + 1
               /\ a1_pc' = "next"
               /\ UNCHANGED a1_total
          ELSE /\ a1_total' = tp
               /\ a1_pc' = "page"
               /\ UNCHANGED a1_cat
    /\ UNCHANGED <<a1_page, a1_progress, a1_completed, a1_file, a1_store,
                   a1_fetched, a1_raised>>
    /\ UNCHANGED <<q_site, sqVars, notSeqVars>>

\* The next page task takes the page semaphore: process_page fetches the
\* page; without html or without items it returns False.
A1Worker ==
    /\ a1_pc = "page"
    /\ a1_page \in PageRange(a1_page, a1_total)
    /\ a1_fetched' = Append(a1_fetched, <<a1_cat, a1_page>>)
    /\ LET html == site_response(a1_cat, a1_page)
       IN IF html = None \/ html.items = 0
          THEN a1_page' = a1_page + 1 /\ UNCHANGED a1_pc
          ELSE a1_pc' = "batch" /\ UNCHANGED a1_page
    /\ UNCHANGED <<a1_cat, a1_total, a1_progress, a1_completed, a1_file,
                   a1_store, a1_raised>>
    /\ UNCHANGED <<q_site, sqVars, notSeqVars>>

\* process_page: the batch is upserted, the cursor is set to page + 1 and
\* saved under progress_lock.
A1Upsert ==
    /\ a1_pc = "batch"
    /\ a1_store' = upsert_products(a1_store, Rows(a1_cat, a1_page, ItemsPerPage))
    /\ a1_progress' = SetCursor(a1_progress, a1_cat, a1_page)
    /\ a1_file' = save_progress(a1_progress')
    /\ a1_page' = a1_page + 1
    /\ a1_pc' = "page"
    /\ UNCHANGED <<a1_cat, a1_total, a1_completed, a1_fetched, a1_raised>>
    /\ UNCHANGED <<q_site, sqVars, notSeqVars>>

\* upsert_products raises: the page task ends with the exception, the
\* as_completed loop swallows it.
A1UpsertRaise ==
    /\ a1_pc = "batch"
    /\ a1_raised' = a1_raised \cup {<<a1_cat, a1_page>>}
    /\ a1_page' = a1_page + 1
    /\ a1_pc' = "page"
    /\ UNCHANGED <<a1_cat, a1_total, a1_progress, a1_completed, a1_file,
                   a1_store, a1_fetched>>
    /\ UNCHANGED <<q_site, sqVars, notSeqVars>>

\* Every page task of the category has ended: the category is marked
\* completed and saved under progress_lock.
A1CategoryCompleted ==
    /\ a1_pc = "page"
    /\ a1_page \notin PageRange(a1_page, a1_total)
    /\ a1_progress' = MarkCompleted(a1_progress, a1_cat)
    /\ a1_file' = save_progress(a1_progress')
    /\ a1_cat' = a1_cat + 1
    /\ a1_pc' = "next"
    /\ UNCHANGED <<a1_page, a1_total, a1_completed, a1_store, a1_fetched,
                   a1_raised>>
    /\ UNCHANGED <<q_site, sqVars, notSeqVars>>

\* Every category worker has ended: gather returns, the pool is closed.
A1Close ==
    /\ a1_pc = "next"
    /\ a1_cat \notin SeqCatIds
    /\ a1_pc' = "done"
    /\ UNCHANGED <<a1_cat, a1_page, a1_total, a1_progress, a1_completed,
                   a1_file, a1_store, a1_fetched, a1_raised>>
    /\ UNCHANGED <<q_site, sqVars, notSeqVars>>

NextSeq ==
    \/ SeqStart
    \/ SeqNextCategory
    \/ SeqListing
    \/ SeqUpsert
    \/ SeqUpsertRaise
    \/ A1Start
    \/ A1CatWorkerStart
    \/ A1SizingReturn
    \/ A1Worker
    \/ A1Upsert
    \/ A1UpsertRaise
    \/ A1CategoryCompleted
    \/ A1Close

\* ------------------------------------------------------------- start
\* A site without pages, for the runs that do not crawl it sequentially.
NoSite == [c \in SeqCatIds |-> [p \in SeqPageNos |-> None]]

InitAux ==
    /\ InitFetch /\ InitEgress /\ InitSink /\ InitPrice(<<>>)
    /\ InitParser(<<>>) /\ InitSeq(NoSite, None)

\* python tr_parser_html.py with SELECTED_CATEGORY_IDS set.
Init == entry = "selected" /\ InitStorage /\ InitMemory /\ InitAux

\* python tr_parser_html.py with SELECTED_CATEGORY_IDS empty.
InitAll == entry = "all" /\ InitStorage /\ InitMemory /\ InitAux

\* The entry point up to its first await: load the checkpoint, drop the
\* completed categories, build the rotator, the pool and the semaphore,
\* create (or queue) one category worker per category left.
RunStart ==
    /\ run # "running"
    /\ runNo < RunsOf(entry)
    /\ LET pr == load_progress(file)
           done == pr.completed_categories
       IN /\ progress' = pr
          /\ completed' = done
          /\ catPc' = [c \in Cats |->
                          IF c \notin CategoriesOf(entry) THEN "idle"
                          ELSE IF Eligible(c, done) THEN "queued"
                          ELSE "skipped"]
          /\ run' = IF \E c \in CategoriesOf(entry) : Eligible(c, done)
                    THEN "running" ELSE "closed"
          /\ pool_made' = \E c \in CategoriesOf(entry) : Eligible(c, done)
          /\ aclose_calls' = 0
    /\ runNo' = runNo + 1
    /\ IF entry = "all"
       THEN rot_proxies' \in Shuffles(ProxyDb)
       ELSE rot_proxies' = <<>>
    /\ rot_idx' = 0
    /\ clients' = {}
    /\ catSem' = MAX_CONCURRENT_CATEGORIES
    /\ start_page' = [c \in Cats |-> 0]
    /\ total_pages' = [c \in Cats |-> 0]
    /\ pageSem' = [c \in Cats |-> 0]
    /\ pagePc' = [c \in Cats |-> NoPages]
    /\ UNCHANGED <<entry, file, store>>
    /\ UNCHANGED auxVars

\* The category worker starts (tasks start and queue in creation order):
\* process_category_async reads start_page, takes a proxy and its client
\* and issues the GET of page 1 for async_get_total_pages.
CatWorkerStart(c) ==
    /\ run = "running"
    /\ Queued # {} /\ c = Min(Queued)
    /\ MayEnter
    /\ catSem' = Enter
    /\ start_page' = [start_page EXCEPT ![c] = StartPageOf(progress, c)]
    /\ clients' = get_client(clients, rotator_value(rot_proxies, rot_idx))
    /\ rot_idx' = rotator_index(rot_proxies, rot_idx)
    /\ catPc' = [catPc EXCEPT ![c] = "sizing"]
    /\ UNCHANGED <<entry, file, store, run, runNo, progress, completed,
                   rot_proxies, total_pages, pageSem, pagePc>>
    /\ UNCHANGED <<pool_made, aclose_calls>>
    /\ UNCHANGED auxVars

\* async_get_total_pages returns; total_pages <= 0 ends the category
\* without a checkpoint write, otherwise a task per page is created.
SizingReturn(c, html) ==
    /\ run = "running"
    /\ catPc[c] = "sizing"
    /\ LET tp == async_get_total_pages(html)
       IN IF tp <= 0
          THEN /\ catPc' = [catPc EXCEPT ![c] = "returned"]
               /\ catSem' = Leave
               /\ start_page' = [start_page EXCEPT ![c] = 0]
               /\ UNCHANGED <<total_pages, pageSem, pagePc>>
          ELSE /\ catPc' = [catPc EXCEPT ![c] = "pages"]
               /\ total_pages' = [total_pages EXCEPT ![c] = tp]
               /\ pageSem' = [pageSem EXCEPT
                                ![c] = MAX_CONCURRENT_PAGES_PER_CATEGORY]
               /\ pagePc' = [pagePc EXCEPT ![c] =
                     [p \in Pages |->
                        IF p \in PageRange(start_page[c], tp)
                        THEN "waiting" ELSE "none"]]
               /\ UNCHANGED <<catSem, start_page>>
    /\ UNCHANGED <<entry, file, store, run, runNo, progress, completed,
                   rot_proxies, rot_idx, clients>>
    /\ UNCHANGED <<pool_made, aclose_calls>>
    /\ UNCHANGED auxVars

\* worker acquires the page semaphore (tasks start and queue in creation
\* order); process_page takes a proxy and its client and issues the GET.
WorkerStart(c, p) ==
    /\ run = "running"
    /\ catPc[c] = "pages"
    /\ Waiting(c) # {} /\ p = Min(Waiting(c))
    /\ sem_free(pageSem[c])
    /\ pageSem' = [pageSem EXCEPT ![c] = @ - 1]
    /\ clients' = get_client(clients, rotator_value(rot_proxies, rot_idx))
    /\ rot_idx' = rotator_index(rot_proxies, rot_idx)
    /\ pagePc' = [pagePc EXCEPT ![c][p] = "fetching"]
    /\ UNCHANGED <<entry, file, store, run, runNo, progress, completed,
                   rot_proxies, catSem, catPc, start_page, total_pages>>
    /\ UNCHANGED <<pool_made, aclose_calls>>
    /\ UNCHANGED auxVars

\* async_fetch_listing returns to process_page: no html or no retained
\* item returns False; otherwise the batch goes to upsert_products in a
\* thread.
FetchReturn(c, p, html) ==
    /\ run = "running"
    /\ pagePc[c][p] = "fetching"
    /\ IF html = None
       THEN /\ pagePc' = [pagePc EXCEPT ![c][p] = "nofetch"]
            /\ pageSem' = [pageSem EXCEPT ![c] = @ + 1]
       ELSE IF html.items = 0
       THEN /\ pagePc' = [pagePc EXCEPT ![c][p] = "empty"]
            /\ pageSem' = [pageSem EXCEPT ![c] = @ + 1]
       ELSE /\ pagePc' = [pagePc EXCEPT ![c][p] = "upserting"]
            /\ UNCHANGED pageSem
    /\ UNCHANGED <<entry, file, store, run, runNo, progress, completed,
                   rot_proxies, rot_idx, clients, catSem, catPc, start_page,
                   total_pages>>
    /\ UNCHANGED <<pool_made, aclose_calls>>
    /\ UNCHANGED auxVars

\* upsert_products commits the batch in its thread.
UpsertCommit(c, p) ==
    /\ run = "running"
    /\ pagePc[c][p] = "upserting"
    /\ store' = upsert_products(store, Rows(c, p, ItemsPerPage))
    /\ pagePc' = [pagePc EXCEPT ![c][p] = "upserted"]
    /\ UNCHANGED <<entry, file, run, runNo, progress, completed, rot_proxies,
                   rot_idx, clients, catSem, catPc, start_page, total_pages,
                   pageSem>>
    /\ UNCHANGED <<pool_made, aclose_calls>>
    /\ UNCHANGED auxVars

\* upsert_products raises (open_db or the statement fails): the exception
\* leaves process_page and worker, the page task ends with it.
UpsertRaise(c, p) ==
    /\ run = "running"
    /\ pagePc[c][p] = "upserting"
    /\ pagePc' = [pagePc EXCEPT ![c][p] = "raised"]
    /\ pageSem' = [pageSem EXCEPT ![c] = @ + 1]
    /\ UNCHANGED <<entry, file, store, run, runNo, progress, completed,
                   rot_proxies, rot_idx, clients, catSem, catPc, start_page,
                   total_pages>>
    /\ UNCHANGED <<pool_made, aclose_calls>>
    /\ UNCHANGED auxVars

\* process_page after the upsert: under progress_lock set the cursor to
\* page + 1 and save the progress.
SaveCursor(c, p) ==
    /\ run = "running"
    /\ pagePc[c][p] = "upserted"
    /\ progress' = SetCursor(progress, c, p)
    /\ file' = save_progress(progress')
    /\ pagePc' = [pagePc EXCEPT ![c][p] = "ok"]
    /\ pageSem' = [pageSem EXCEPT ![c] = @ + 1]
    /\ UNCHANGED <<entry, store, run, runNo, completed, rot_proxies, rot_idx,
                   clients, catSem, catPc, start_page, total_pages>>
    /\ UNCHANGED <<pool_made, aclose_calls>>
    /\ UNCHANGED auxVars

\* process_category_async after the as_completed loop: every page task has
\* ended; under progress_lock mark the category completed and save, then
\* return (the tasks and the other locals are gone).
CategoryCompleted(c) ==
    /\ run = "running"
    /\ catPc[c] = "pages"
    /\ \A p \in Pages : pagePc[c][p] \in Finished \cup {"none"}
    /\ progress' = MarkCompleted(progress, c)
    /\ file' = save_progress(progress')
    /\ catPc' = [catPc EXCEPT ![c] = "done"]
    /\ catSem' = Leave
    /\ start_page' = [start_page EXCEPT ![c] = 0]
    /\ total_pages' = [total_pages EXCEPT ![c] = 0]
    /\ pageSem' = [pageSem EXCEPT ![c] = 0]
    /\ pagePc' = [pagePc EXCEPT ![c] = NoPages]
    /\ UNCHANGED <<entry, store, run, runNo, completed, rot_proxies, rot_idx,
                   clients>>
    /\ UNCHANGED <<pool_made, aclose_calls>>
    /\ UNCHANGED auxVars

\* Every category worker has ended; the client pool is closed and the
\* entry point returns.
RunClose ==
    /\ run = "running"
    /\ \A c \in CategoriesOf(entry) :
          catPc[c] \in {"skipped", "returned", "done"}
    /\ run' = "closed"
    /\ aclose_calls' = aclose_calls + 1
    /\ UNCHANGED <<entry, file, store, runNo, progress, completed,
                   rot_proxies, rot_idx, clients, catSem, catPc, start_page,
                   total_pages, pageSem, pagePc, pool_made>>
    /\ UNCHANGED auxVars

\* The process is killed: everything in memory is lost, the checkpoint
\* file and the table stay.
Crash ==
    /\ run = "running"
    /\ run' = "idle"
    /\ progress' = EmptyProgress
    /\ completed' = {}
    /\ rot_proxies' = <<>>
    /\ rot_idx' = 0
    /\ clients' = {}
    /\ catSem' = MAX_CONCURRENT_CATEGORIES
    /\ catPc' = [c \in Cats |-> "idle"]
    /\ start_page' = [c \in Cats |-> 0]
    /\ total_pages' = [c \in Cats |-> 0]
    /\ pageSem' = [c \in Cats |-> 0]
    /\ pagePc' = [c \in Cats |-> NoPages]
    /\ pool_made' = FALSE
    /\ aclose_calls' = 0
    /\ UNCHANGED <<entry, file, store, runNo>>
    /\ UNCHANGED auxVars

\* A page task or a category is inside save_progress.
Saving ==
    \/ \E c \in Cats, p \in Pages : pagePc[c][p] = "upserted"
    \/ \E c \in Cats :
          /\ catPc[c] = "pages"
          /\ \A p \in Pages : pagePc[c][p] \in Finished \cup {"none"}

\* The process is killed inside save_progress, after open(path, "w") and
\* before the document is written out.
CrashInSave ==
    /\ run = "running"
    /\ Saving
    /\ file' \in TornFiles
    /\ run' = "idle"
    /\ progress' = EmptyProgress
    /\ completed' = {}
    /\ rot_proxies' = <<>>
    /\ rot_idx' = 0
    /\ clients' = {}
    /\ catSem' = MAX_CONCURRENT_CATEGORIES
    /\ catPc' = [c \in Cats |-> "idle"]
    /\ start_page' = [c \in Cats |-> 0]
    /\ total_pages' = [c \in Cats |-> 0]
    /\ pageSem' = [c \in Cats |-> 0]
    /\ pagePc' = [c \in Cats |-> NoPages]
    /\ pool_made' = FALSE
    /\ aclose_calls' = 0
    /\ UNCHANGED <<entry, store, runNo>>
    /\ UNCHANGED auxVars

\* The main task is cancelled from outside (asyncio.run on Ctrl-C): the
\* await it is suspended in raises CancelledError, which is no Exception,
\* so no except clause catches it; the coroutine is left without reaching
\* client_pool.aclose(), its tasks are cancelled, the process exits.
Cancel ==
    /\ run = "running"
    /\ run' = "cancelled"
    /\ progress' = EmptyProgress
    /\ completed' = {}
    /\ rot_proxies' = <<>>
    /\ rot_idx' = 0
    /\ clients' = {}
    /\ catSem' = MAX_CONCURRENT_CATEGORIES
    /\ catPc' = [c \in Cats |-> "idle"]
    /\ start_page' = [c \in Cats |-> 0]
    /\ total_pages' = [c \in Cats |-> 0]
    /\ pageSem' = [c \in Cats |-> 0]
    /\ pagePc' = [c \in Cats |-> NoPages]
    /\ UNCHANGED <<entry, file, store, runNo, pool_made, aclose_calls>>
    /\ UNCHANGED auxVars

Next ==
    \/ RunStart
    \/ \E c \in Cats : CatWorkerStart(c)
    \/ \E c \in Cats, html \in Responses : SizingReturn(c, html)
    \/ \E c \in Cats, p \in Pages : WorkerStart(c, p)
    \/ \E c \in Cats, p \in Pages, html \in Responses :
          FetchReturn(c, p, html)
    \/ \E c \in Cats, p \in Pages : UpsertCommit(c, p)
    \/ \E c \in Cats, p \in Pages : UpsertRaise(c, p)
    \/ \E c \in Cats, p \in Pages : SaveCursor(c, p)
    \/ \E c \in Cats : CategoryCompleted(c)
    \/ RunClose
    \/ Crash
    \/ CrashInSave
    \/ Cancel

Spec == Init /\ [][Next]_vars

\* The steps of a crawl that is neither killed nor cancelled, and whose
\* GETs and database writes return.
NextLive ==
    \/ RunStart
    \/ \E c \in Cats : CatWorkerStart(c)
    \/ \E c \in Cats, html \in Responses : SizingReturn(c, html)
    \/ \E c \in Cats, p \in Pages : WorkerStart(c, p)
    \/ \E c \in Cats, p \in Pages, html \in Responses :
          FetchReturn(c, p, html)
    \/ \E c \in Cats, p \in Pages : UpsertCommit(c, p)
    \/ \E c \in Cats, p \in Pages : UpsertRaise(c, p)
    \/ \E c \in Cats, p \in Pages : SaveCursor(c, p)
    \/ \E c \in Cats : CategoryCompleted(c)
    \/ RunClose

\* The event loop runs a task that is ready, and every awaited GET and
\* write returns: a step that stays possible is taken. The crawl is the one
\* of the selected categories.
SpecLive == Init /\ [][NextLive]_vars /\ WF_vars(NextLive)

\* parse_all_products_async: categories run concurrently.
SpecAll == InitAll /\ [][Next]_vars

\* Either entry point.
SpecAny == (Init \/ InitAll) /\ [][Next]_vars

\* One call of async_fetch_listing against a server that answers anything.
SpecFetch == Init /\ [][NextFetch]_vars

\* Workers that take a proxy and a client from one rotator and one pool.
SpecEgress == Init /\ [][NextEgress]_vars

\* Batches of records upserted one after another.
SpecSink == Init /\ [][NextSink]_vars

\* parse_price applied to one text.
InitPriceSpec ==
    /\ entry = "selected" /\ InitStorage /\ InitMemory
    /\ InitFetch /\ InitEgress /\ InitSink /\ InitParser(<<>>)
    /\ InitSeq(NoSite, None)
    /\ \E text \in PriceTexts : InitPrice(text)
SpecPrice == InitPriceSpec /\ [][NextPrice]_vars

\* extract_products_from_html applied to one page.
InitParserSpec ==
    /\ entry = "selected" /\ InitStorage /\ InitMemory
    /\ InitFetch /\ InitEgress /\ InitSink /\ InitPrice(<<>>)
    /\ InitSeq(NoSite, None)
    /\ \E page \in ListingPages : InitParser(page)
SpecParser == InitParserSpec /\ [][NextParser]_vars

\* parse_all_products, then parse_all_products_async limited to one
\* category and one page at a time, on one site from one checkpoint.
InitSeqSpec ==
    /\ entry = "selected" /\ InitStorage /\ InitMemory
    /\ InitFetch /\ InitEgress /\ InitSink /\ InitPrice(<<>>)
    /\ InitParser(<<>>)
    /\ \E site \in Sites, f \in Checkpoints : InitSeq(site, f)
SpecSeq == InitSeqSpec /\ [][NextSeq]_vars

\* ------------------------------------------------------------ observations
\* The checkpoint a reader of the file sees.
Persisted == load_progress(file)
Cursor(c) == Persisted.category_pages[c]

\* GETs issued by the category's live coroutines: the sizing GET of page 1
\* and the GETs of the page tasks.
SizingFetches(c) == IF catPc[c] \in {"sizing", "pages"} THEN {1} ELSE {}
PageFetches(c) == {p \in Pages : pagePc[c][p] \notin {"none", "waiting"}}
FetchedPages(c) == SizingFetches(c) \cup PageFetches(c)

\* Rows of the table that belong to category c.
StoreOf(c) == {r \in store : r[1] = c}

\* ------------------------------------------------------------------ claims

\* C1: every value written to the persisted category_pages[id] is greater
\* than or equal to the value persisted before it: the cursor never
\* regresses.
C1_CursorNeverRegresses ==
    [][\A c \in Cats :
          (Cursor(c) # 0 /\ Cursor(c)' # 0) => Cursor(c)' >= Cursor(c)]_vars

\* C2: while a category is in flight, no page below the persisted cursor is
\* still unprocessed (the cursor is the lowest page not yet processed).
C2_NoUnprocessedPageBelowCursor ==
    \A c \in Cats : \A p \in Pages :
        (catPc[c] = "pages" /\ pagePc[c][p] # "none" /\ p < Cursor(c))
            => pagePc[c][p] \in {"ok", "empty"}

\* C3 (as stated): with a loaded cursor k > 1 the run issues no GET for a
\* page below k, page 1 included.
C3_NoFetchBelowCursor ==
    \A c \in Cats :
        start_page[c] > 1 => \A p \in FetchedPages(c) : p >= start_page[c]

\* C3 (amended): with a loaded cursor k > 1 the category starts at
\* start_page = k; apart from the sizing GET of page 1 no page below k is
\* fetched, and the first page a page task fetches is k.
C3_ResumeAtCursor ==
    \A c \in Cats :
        /\ (catPc[c] = "sizing" /\ Cursor(c) > 1) => start_page[c] = Cursor(c)
        /\ (catPc[c] = "pages" /\ start_page[c] > 1) =>
              /\ \A p \in PageFetches(c) : p >= start_page[c]
              /\ PageFetches(c) # {} => start_page[c] \in PageFetches(c)

\* A resumed category whose page task of page k has issued its GET.
C3_Witness ==
    \E c \in Cats :
        /\ catPc[c] = "pages" /\ start_page[c] > 1
        /\ start_page[c] \in PageFetches(c)

C5_FailedPageStaysUnprocessed ==
    [][\A c \in Cats : \A p \in Pages :
          pagePc[c][p] = "nofetch" =>
             /\ Cursor(c)' > p => Cursor(c)' = Cursor(c)
             /\ c \notin Persisted'.completed_categories]_vars

\* C6: the cursor is set to p + 1 for page p only after the upsert of p's
\* batch has returned; after the upsert of p has raised, the cursor is not
\* advanced past p and the category is not completed, so p is retried.
C6_CursorOnlyAfterUpsert ==
    [][\A c \in Cats : \A p \in Pages :
          /\ (pagePc[c][p] # "ok" /\ pagePc'[c][p] = "ok") =>
                /\ pagePc[c][p] = "upserted"
                /\ Rows(c, p, ItemsPerPage) \subseteq store
                /\ Cursor(c)' = p + 1
          /\ pagePc[c][p] = "raised" =>
                /\ Cursor(c)' > p => Cursor(c)' = Cursor(c)
                /\ c \notin Persisted'.completed_categories]_vars

\* C8: a category whose page 1 could not be fetched (0 pages) is marked
\* complete in the checkpoint.
C8_UnfetchableCategoryMarkedComplete ==
    \A c \in Cats :
        catPc[c] = "returned" => c \in Persisted.completed_categories

\* Category c has drained in the end-to-end scenario: N >= 2 pages were
\* scheduled from page 1, pages 1..N-1 were upserted and checkpointed,
\* page N returned zero items.
C7_Scenario(c) ==
    /\ catPc[c] = "pages" /\ start_page[c] = 1 /\ total_pages[c] >= 2
    /\ \A p \in 1..(total_pages[c] - 1) : pagePc[c][p] = "ok"
    /\ pagePc[c][total_pages[c]] = "empty"

\* C7: in a first run (empty checkpoint, empty table) a category in the
\* end-to-end scenario ends in completed_categories, absent from
\* category_pages, with exactly the items of pages 1..N-1 upserted.
C7_EndToEnd ==
    [][\A c \in Cats :
          (runNo = 1 /\ C7_Scenario(c) /\ catPc'[c] = "done") =>
             /\ c \in Persisted'.completed_categories
             /\ Cursor(c)' = 0
             /\ StoreOf(c)' = UNION {Rows(c, p, ItemsPerPage) :
                                        p \in 1..(total_pages[c] - 1)}]_vars

\* A first run has completed a category with exactly the ItemsPerPage
\* records of its page 1 in the table.
C7_Witness ==
    \E c \in Cats :
        /\ runNo = 1 /\ catPc[c] = "done"
        /\ c \in Persisted.completed_categories /\ Cursor(c) = 0
        /\ StoreOf(c) = Rows(c, 1, ItemsPerPage)
        /\ Cardinality(StoreOf(c)) = ItemsPerPage

\* C9: a category that is in completed_categories of the loaded checkpoint
\* is never processed in that run: no GET is issued for it, no record of
\* it is upserted, no checkpoint entry is written for it.
C9_CompletedNeverProcessed ==
    [][\A c \in completed \cap completed' :
          /\ catPc'[c] = "skipped"
          /\ FetchedPages(c)' = {}
          /\ StoreOf(c)' = StoreOf(c)
          /\ progress'.category_pages[c] = progress.category_pages[c]
          /\ Cursor(c)' = Cursor(c)
          /\ c \in Persisted'.completed_categories]_vars

\* A run that skips a completed category while it fetches pages of
\* another one.
C9_Witness ==
    /\ run = "running" /\ completed # {}
    /\ \E d \in Cats : PageFetches(d) # {}

\* C10: at most MAX_CONCURRENT_CATEGORIES categories are being processed,
\* at most MAX_CONCURRENT_PAGES_PER_CATEGORY pages of each are in flight,
\* hence never more pages in flight than the product of the two.
PagesInFlight == {<<c, p>> \in Cats \X Pages : p \in InFlight(c)}
C10_ConcurrencyBounds ==
    /\ Cardinality(Active) <= MAX_CONCURRENT_CATEGORIES
    /\ \A c \in Cats :
          Cardinality(InFlight(c)) <= MAX_CONCURRENT_PAGES_PER_CATEGORY
    /\ Cardinality(PagesInFlight) <=
          MAX_CONCURRENT_CATEGORIES * MAX_CONCURRENT_PAGES_PER_CATEGORY

\* Both limits reached at once, with a category still queued: the pages in
\* flight number the product of the limits.
C10_Witness ==
    /\ Queued # {}
    /\ Cardinality(Active) = MAX_CONCURRENT_CATEGORIES
    /\ Cardinality(PagesInFlight) =
          MAX_CONCURRENT_CATEGORIES * MAX_CONCURRENT_PAGES_PER_CATEGORY

\* ---------------------------------------------------------------- C11
\* C11: a call of async_fetch_listing issues at most 4 GETs, and once it
\* has returned its value is either the body of a 200 response or the
\* failure value.
C11_AtMostFourGets ==
    /\ f_gets <= 4
    /\ f_pc = "done" =>
          \/ f_result = None
          \/ /\ is_body(f_log[Len(f_log)])
             /\ f_result = Returned(f_log[Len(f_log)].text)
             /\ f_result # Returned("")

\* Four transient replies in a row: the call has returned after 4 GETs.
C11_Witness ==
    /\ f_pc = "done"
    /\ f_gets = 4
    /\ f_result = None
    /\ \A i \in 1..4 : is_transient(f_log[i])

\* ---------------------------------------------------------------- C12
Reply503 == [exc |-> "", status |-> 503, text |-> ""]
Reply200 == [exc |-> "", status |-> 200, text |-> "body"]

\* C12: when the server answers 503 to the first three GETs and 200 with
\* a non-empty body to the fourth, the call returns that body; the delays
\* slept between the attempts are each strictly greater than the one
\* before, or equal to the cap.
C12_RetryThenBody ==
    /\ (f_pc = "done" /\ f_log = <<Reply503, Reply503, Reply503, Reply200>>)
          => /\ f_result = Returned(Reply200.text)
             /\ Len(f_sleeps) = 3
    /\ \A i \in 2..Len(f_sleeps) :
          \/ f_sleeps[i] > f_sleeps[i - 1]
          \/ f_sleeps[i] = MAX_BACKOFF
    /\ \A i \in 1..Len(f_sleeps) : f_sleeps[i] > 0

\* The scenario has run to its return.
C12_Witness ==
    /\ f_pc = "done"
    /\ f_log = <<Reply503, Reply503, Reply503, Reply200>>
    /\ f_sleeps = <<250, 500, 1000>>

\* ---------------------------------------------------------------- C13
LastReply == f_log[Len(f_log)]

\* C13: a fetch that ended because the retries of a transient condition
\* were exhausted returns a value different from the one a fetch returns
\* for a non-retryable reply, and the other way round.
C13_FailureKindsDistinguishable ==
    (f_pc = "done" /\ ~is_body(LastReply)) =>
        IF is_transient(LastReply)
        THEN f_result # non_retryable_result
        ELSE f_result # exhausted_result

\* ---------------------------------------------------------------- C14
TimesReturned(e) ==
    Cardinality({i \in 1..Len(r_calls) : r_calls[i].proxy = e})

\* C14: with n >= 1 endpoints the i-th next() call (counted from 0, over
\* the calls of all workers) returns element (i mod n) of the shuffled
\* list, the shuffled list holds the endpoints given, and after k*n calls
\* each endpoint has been returned exactly k times.
C14_RoundRobin ==
    LET n == Len(r_proxies)
    IN (r_built /\ n >= 1) =>
          /\ {r_proxies[j] : j \in 1..n} = {ProxyList(n)[j] : j \in 1..n}
          /\ \A i \in 1..Len(r_calls) :
                r_calls[i].proxy = r_proxies[((i - 1) % n) + 1]
          /\ Len(r_calls) % n = 0 =>
                \A j \in 1..n :
                    TimesReturned(r_proxies[j]) = Len(r_calls) \div n

\* Three endpoints, six calls coming from both workers.
C14_Witness ==
    /\ Len(r_proxies) = 3
    /\ Len(r_calls) = 6
    /\ {r_calls[i].worker : i \in 1..6} = Workers
    /\ r_proxies # ProxyList(3)

\* ---------------------------------------------------------------- C15
KeysCalled == {r_calls[i].key : i \in 1..Len(r_calls)}

\* C15: whatever the order in which the workers call get_client, one
\* client is constructed per egress key: all calls with one key return
\* the same client, calls with different keys return different clients,
\* and the number of clients constructed is the number of keys asked for.
C15_OneClientPerKey ==
    /\ \A i, j \in 1..Len(r_calls) :
          (r_calls[i].key = r_calls[j].key)
              <=> (r_calls[i].client = r_calls[j].client)
    /\ p_created = Cardinality(KeysCalled)
    /\ Cardinality(p_clients) = Cardinality(KeysCalled)
    /\ \A i \in 1..Len(r_calls) :
          r_calls[i].key = client_key(r_calls[i].proxy)

\* Two proxies and the direct key each asked for again by another worker.
C15_Witness ==
    \/ /\ Len(r_proxies) = 2
       /\ Len(r_calls) = 4
       /\ r_calls[1].worker # r_calls[3].worker
       /\ r_calls[1].client = r_calls[3].client
       /\ p_created = 2
    \/ /\ r_built
       /\ Len(r_proxies) = 0
       /\ Len(r_calls) = 2
       /\ r_calls[1].worker # r_calls[2].worker
       /\ r_calls[1].key = "__direct__"
       /\ p_created = 1

\* ---------------------------------------------------------------- C16
\* C16: a scheduler run that constructed a client pool and has ended, by
\* completing its categories or by being cancelled, has invoked aclose
\* exactly once; while it runs aclose has not been invoked.
C16_PoolClosedExactlyOnce ==
    /\ (pool_made /\ run \in {"closed", "cancelled"}) => aclose_calls = 1
    /\ run = "running" => aclose_calls = 0

\* ---------------------------------------------------------------- C17
\* C17: at every instant, a crash inside save_progress included, the
\* checkpoint file is absent or holds a complete document, never an empty
\* or partially written one.
C17_FileNeverTorn == file \notin TornFiles

\* ---------------------------------------------------------------- C18
\* The last record applied with this sku.
LastApplied(sku) ==
    t_log[CHOOSE i \in 1..Len(t_log) :
              /\ t_log[i].name = sku
              /\ \A j \in (i + 1)..Len(t_log) : t_log[j].name # sku]

\* C18: after any sequence of upserts the table has one row per sku
\* applied and no other row, the row holds the fields of the last record
\* applied with that sku, and applying any batch a second time leaves the
\* table as it was after the first time.
C18_SinkIdempotent ==
    /\ \A r1, r2 \in t_rows : r1.sku = r2.sku => r1 = r2
    /\ {r.sku : r \in t_rows} = {t_log[i].name : i \in 1..Len(t_log)}
    /\ \A r \in t_rows : r = row_of(LastApplied(r.sku))
    /\ \A batch \in Batches :
          executemany(executemany(t_rows, batch), batch)
              = executemany(t_rows, batch)

\* One batch with two skus has been applied twice in a row.
C18_Witness ==
    /\ Len(t_log) = 4
    /\ t_log[1] = t_log[3] /\ t_log[2] = t_log[4]
    /\ t_log[1].name # t_log[2].name
    /\ Cardinality(t_rows) = 2

\* ---------------------------------------------------------------- C20
\* C20: parse_price returns null when the text has no digit and a number
\* when it has one.
C20_NullOnlyWithoutDigit ==
    pp_done =>
        (pp_result = None <=> \A i \in 1..Len(pp_text) : pp_text[i] \notin Digits)

\* ---------------------------------------------------------------- C19
IsItemTag(ev) == ev.kind = "item"
ItemTags == SelectSeq(ps_page, IsItemTag)

\* The indices of the parsed items that have a name and a price, and the
\* k-th of them.
Complete == {i \in 1..Len(ps_items) :
                ps_items[i].name # <<>> /\ ps_items[i].price # None}
KthComplete(k) ==
    CHOOSE i \in Complete : Cardinality({j \in Complete : j <= i}) = k

C21_EmptyPageAdvancesCursor ==
    [][\A c \in Cats : \A p \in Pages :
          (pagePc[c][p] = "fetching" /\ pagePc'[c][p] = "empty")
              => Cursor(c)' = p + 1]_vars

\* ---------------------------------------------------------------- C22
\* C22: during an async run every change of the checkpoint is the change
\* of one worker, made on the state all earlier changes left and saved
\* with it: one page task sets the cursor of its category, or one category
\* completes, no other worker moves in that step, and the file holds the
\* progress dict, so that no update is lost.
C22_CheckpointWritesSerialized ==
    [][(run = "running" /\ run' = "running") =>
          /\ Persisted' = progress'
          /\ progress' # progress =>
                \/ \E c \in Cats, p \in Pages :
                      /\ pagePc[c][p] = "upserted" /\ pagePc'[c][p] = "ok"
                      /\ progress' =
                            [progress EXCEPT !.category_pages[c] = p + 1]
                      /\ catPc' = catPc
                      /\ \A d \in Cats, q \in Pages :
                            <<d, q>> # <<c, p>> => pagePc'[d][q] = pagePc[d][q]
                \/ \E c \in Cats :
                      /\ catPc[c] = "pages" /\ catPc'[c] = "done"
                      /\ progress'.completed_categories =
                            progress.completed_categories \cup {c}
                      /\ progress'.category_pages =
                            [progress.category_pages EXCEPT ![c] = 0]
                      /\ \A d \in Cats \ {c} :
                            catPc'[d] = catPc[d] /\ pagePc'[d] = pagePc[d]]_vars

\* Two categories are being processed at once and the file holds the
\* cursor of each of them.
C22_Witness ==
    \E c, d \in Cats :
        /\ c # d
        /\ catPc[c] = "pages" /\ catPc[d] = "pages"
        /\ Cursor(c) # 0 /\ Cursor(d) # 0

\* ---------------------------------------------------------------- C23
\* The page read as HTML in which <meta> is a void element without an end
\* tag: the start of the item the parser is in or was in last, the number
\* of elements of it still open after event j, and whether the close tag
\* that matches its <li> is among the events handled.
VoidKinds == {"meta"}
ItemStarts == {i \in 1..ps_pos : ps_page[i].kind = "item"}
OpenElements(i, j) ==
    1 + Cardinality({k \in (i + 1)..j :
                        ps_page[k].kind \notin VoidKinds \cup {"end", "data"}})
      - Cardinality({k \in (i + 1)..j : ps_page[k].kind = "end"})
MatchingCloseReached(i) ==
    \E q \in (i + 1)..ps_pos : OpenElements(i, q) = 0

\* C23: while the page is fed, the parser is inside an item exactly as
\* long as the close tag matching the item's <li> has not been reached,
\* void elements in the item's body included.
C23_FinalizedAtMatchingClose ==
    (~ps_closed /\ ItemStarts # {}) =>
        (ps_in_item <=> ~MatchingCloseReached(Max(ItemStarts)))

\* ---------------------------------------------------------------------
\* C24
\* ---------------------------------------------------------------------

\* The position of the k-th item start of the page, and the position just
\* after the last event delivered while that item was the current one.
ItemStartAt(k) ==
    CHOOSE i \in 1..Len(ps_page) :
        /\ ps_page[i].kind = "item"
        /\ Cardinality({j \in 1..i : ps_page[j].kind = "item"}) = k
ItemSpanEnd(k) ==
    IF \E i \in 1..Len(ps_page) :
          /\ ps_page[i].kind = "item"
          /\ Cardinality({j \in 1..i : ps_page[j].kind = "item"}) = k + 1
    THEN ItemStartAt(k + 1)
    ELSE Len(ps_page) + 1

\* The texts handle_data can have collected for the k-th item: the
\* stripped, non-empty text nodes between its start and the next start.
IsText(e) == e.kind = "data" /\ strip(e.text) # <<>>
SpanTexts(k) ==
    LET evs == SelectSeq(SubSeq(ps_page, ItemStartAt(k) + 1,
                                ItemSpanEnd(k) - 1), IsText)
    IN [i \in 1..Len(evs) |-> strip(evs[i].text)]
FromSpan(text, k) ==
    \E a \in 1..Len(SpanTexts(k)) : \E b \in a..Len(SpanTexts(k)) :
        text = join_space(SubSeq(SpanTexts(k), a, b))

\* C24: once the page is parsed, the link name and every attribute value
\* in the record of an item are made of text nodes met while that item was
\* the current one; nothing collected inside the previous item appears in
\* the record of the item that began before the previous one was closed.
C24_NoMergeIntoNewItem ==
    ps_closed =>
        \A k \in 1..Len(ps_items) :
            /\ ps_items[k].product_name = ps_items[k].name
                   \/ FromSpan(ps_items[k].product_name, k)
            /\ \A n \in 1..Len(ps_items[k].product_characs) :
                   FromSpan(ps_items[k].product_characs[n].value, k)

\* ---------------------------------------------------------------- C25
\* The pages a run has requested, and whether the site serves page p of
\* category c with items.
Requested(log) == {log[i] : i \in 1..Len(log)}
HasItems(c, p) ==
    /\ p \in SeqPageNos
    /\ q_site[c][p] # None
    /\ q_site[c][p].items > 0

\* The async crawl schedules the pages up to the page count of page 1.
Scheduled(c, p) == p <= async_get_total_pages(site_response(c, 1))

\* C25: when a run has ended, for every page whose processing raised, the
\* next page of its category, if the site has it (and, in the async crawl,
\* the page count covers it), was processed as well,
\* and every later category that the run did not skip as completed was
\* processed; this for the sequential crawler and for the async crawl.
C25_FaultsAreContained ==
    /\ sq_pc = "done" =>
          \A cp \in sq_raised :
              /\ HasItems(cp[1], cp[2] + 1)
                    => <<cp[1], cp[2] + 1>> \in Requested(sq_fetched)
              /\ \A d \in SeqCatIds :
                    (d > cp[1] /\ d \notin sq_progress.completed_categories)
                        => \E p \in SeqPageNos :
                              <<d, p>> \in Requested(sq_fetched)
    /\ a1_pc = "done" =>
          \A cp \in a1_raised :
              /\ (HasItems(cp[1], cp[2] + 1) /\ Scheduled(cp[1], cp[2] + 1))
                    => <<cp[1], cp[2] + 1>> \in Requested(a1_fetched)
              /\ \A d \in SeqCatIds :
                    (d > cp[1] /\ d \notin a1_completed)
                        => \E p \in SeqPageNos :
                              <<d, p>> \in Requested(a1_fetched)

\* ---------------------------------------------------------------- C26
\* C26: in a crawl that is not killed and whose fetches and writes return,
\* a category whose page count was determined as positive (its worker is
\* past the sizing and has created its page tasks) is eventually in
\* completed_categories of the checkpoint file.
C26_Drained ==
    \A c \in Cats :
        (catPc[c] = "pages") ~> (c \in Persisted.completed_categories)

\* A category whose worker has ended is in completed_categories of the
\* file although none of its pages was stored: every attempt failed.
C26_Witness ==
    \E c \in Cats :
        /\ catPc[c] = "done"
        /\ c \in Persisted.completed_categories
        /\ \A row \in store : row[1] # c

\* ---------------------------------------------------------------- C27
\* C27: on the same site and from the same checkpoint, when neither run
\* met a database fault, the sequential crawler and the async crawl with
\* one category and one page at a time have requested the same pages in
\* the same order, stored the same rows and left the same checkpoint.
C27_SequentialIsPipelineOfOne ==
    (sq_pc = "done" /\ a1_pc = "done" /\ sq_raised = {} /\ a1_raised = {})
        => /\ sq_fetched = a1_fetched
           /\ sq_store = a1_store
           /\ load_progress(sq_file) = load_progress(a1_file)

\* ---------------------------------------------------------------- C28
\* C28: while an async run goes on, a category enters completed_categories
\* (and its cursor key is deleted) only in a step before which none of its
\* page tasks is waiting or in flight; the cursor of a category that is in
\* completed_categories is not written; and a category in
\* completed_categories stays in it, in memory and in the file.
C28_CompletionAfterAllPages ==
    [][(run = "running" /\ run' = "running") =>
          \A c \in Cats :
              /\ (c \notin progress.completed_categories
                     /\ c \in progress'.completed_categories)
                    => /\ Waiting(c) = {} /\ InFlight(c) = {}
                       /\ progress'.category_pages[c] = 0
                       /\ Persisted' = progress'
              /\ c \in progress.completed_categories
                    => /\ c \in progress'.completed_categories
                       /\ progress'.category_pages[c] = 0
              /\ c \in Persisted.completed_categories
                    => /\ c \in Persisted'.completed_categories
                       /\ Persisted'.category_pages[c] = 0]_vars

\* A category is completed in the file while a page task of another
\* category of the same run is about to write its cursor.
C28_Witness ==
    \E c, d \in Cats :
        /\ run = "running"
        /\ catPc[c] = "done"
        /\ c \in Persisted.completed_categories
        /\ \E p \in Pages : pagePc[d][p] = "upserted"

\* ---------------------------------------------------------------- C29
\* The checkpoint file is missing or is not a JSON document.
NoDocument == file = None \/ file \in TornFiles

\* C29: a run that starts without a readable checkpoint document starts
\* with the empty progress: no category is completed, every category of
\* the run is scheduled and its start page is 1. Whenever save_progress
\* has written the file, load_progress of the file is exactly the dict
\* that was saved, and the run that starts from it starts with that dict.
C29_LoadProgress ==
    [][/\ (run # "running" /\ run' = "running" /\ NoDocument)
             => /\ progress' = EmptyProgress
                /\ completed' = {}
                /\ \A c \in CategoriesOf(entry) :
                      catPc'[c] = "queued" /\ StartPageOf(progress', c) = 1
       /\ (file' # file /\ file' \notin TornFiles)
             => load_progress(file') = progress'
       /\ (run # "running" /\ run' = "running" /\ ~NoDocument)
             => progress' = load_progress(file)]_vars

\* A second run is going on that started from a file torn by a kill inside
\* save_progress.
C29_Witness ==
    /\ run = "running"
    /\ runNo = 2
    /\ file \in TornFiles

\* ---------------------------------------------------------------- C30
\* C30: every batch a page worker passes to upsert_products is non-empty
\* and each of its records has a non-empty name, which is the sku of its
\* row, and a price; a page worker whose fetch returned nothing or whose
\* page has no retained item has passed no batch.
C30_SinkGetsCompleteRecords ==
    /\ \A n \in 1..Len(pw_batches) :
          /\ pw_batches[n] # <<>>
          /\ \A i \in 1..Len(pw_batches[n]) :
                /\ pw_batches[n][i].name # <<>>
                /\ pw_batches[n][i].price # None
    /\ pw_result \in {"no_html", "no_items"} => pw_batches = <<>>
    /\ (ps_closed /\ ps_out = <<>>) => pw_batches = <<>>

\* A page with two items, one of them without a price, has been parsed
\* and its page worker has passed the batch of the one complete item.
C30_Witness ==
    /\ pw_result = "upsert"
    /\ Len(ps_items) = 2
    /\ Len(pw_batches) = 1
    /\ Len(pw_batches[1]) = 1
====
